---- MODULE Spec2Model ----
\* The DigitalOcean provider of external-dns (providers/digitalocean/digitalocean.go):
\* one provider instance, its rate bucket, and the remote domain it manages.
\* A name is a sequence of labels and "." separators, so that the joins and the
\* trailing-dot conversions of the code are computed, not assumed.
EXTENDS Integers, Sequences, FiniteSets, TLC

VARIABLES
    client,          \* p.client is set (non-nil)
    limiter,         \* p.limiter: [valid |-> is set, tokens |-> tokens in the bucket]
    rootDomainName,  \* p.rootDomainName
    TTL,             \* p.TTL
    backend,         \* the rows of the domain held by the remote API
    nextId,          \* the id the remote API gives to the next created row
    op,              \* the provider method in progress or last returned
    pc,              \* position inside that method
    record,          \* its utils.DnsRecord argument
    err,             \* the error it returned (NoError for nil)
    records,         \* RemoveRecord: the rows its list call returned
    idx,             \* RemoveRecord / AddRecord: position of the range loop
    recordMap,       \* GetRecords: recordMap
    optPage,         \* GetRecords: opt.Page
    pages,           \* GetRecords: the pages the remote API serves the listing in
    dnsRecords,      \* GetRecords: the returned collection
    acquired,        \* tokens taken by the method in progress
    log,             \* backend calls issued by the method in progress, in order
    before,          \* the backend rows when the method in progress started
    prev,            \* what the caller holds of the calls returned since the last change
    callers,         \* the goroutines that call the provider at the same time: their positions
    meter            \* an interval of observation: refill periods and admitted calls in it

vars == <<client, limiter, rootDomainName, TTL, backend, nextId, op, pc, record, err,
          records, idx, recordMap, optPage, pages, dnsRecords, acquired, log, before, prev,
          callers, meter>>

provider == <<client, rootDomainName, TTL>>
getLocals == <<recordMap, optPage, pages, dnsRecords>>
rmLocals == <<records, idx>>
crowd == <<callers, meter>>

\* ---------------------------------------------------------------- bounds
MaxInitRows == 3
MaxValues == 2
MaxCreated == 2
NCallers == 2
MaxTicks == 2

\* ---------------------------------------------------------------- names
Dot == "."
Apex == "@"
RootLabel == "d"

\* utils.Fqdn: the name with a trailing dot.
Fqdn(name) ==
    IF Len(name) > 0 /\ name[Len(name)] = Dot THEN name ELSE Append(name, Dot)

\* utils.UnFqdn: the name without its trailing dot.
UnFqdn(name) ==
    IF Len(name) > 0 /\ name[Len(name)] = Dot THEN SubSeq(name, 1, Len(name) - 1) ELSE name

\* GetName
GetName == "DigitalOcean"

\* Errors: nil, Init's missing credential, the error of the remote API, and
\* fmt.Errorf("%s API call has failed: %v", p.GetName(), err).
NoError == <<>>
ConfigError == <<"DO_PAT is not set">>
BackendError == <<"backend error">>
Wrapped(e) == <<GetName, "API call has failed">> \o e

\* JoinName without the apex case.
JoinNameNoApex(name, root) == name \o <<Dot>> \o root

\* The name GetRecords gives to a backend row: the root domain for "@", otherwise
\* strings.Join({r.Name, p.rootDomainName}, ".").
JoinName(name, root) ==
    IF name = <<Apex>> THEN root ELSE name \o <<Dot>> \o root

\* Matches without the type test.
MatchesNameOnly(rec, r) == rec.name = r.fqdn

\* The row test of RemoveRecord's loop.
Matches(rec, r) == rec.name = r.fqdn /\ rec.type = r.type

\* ---------------------------------------------------------------- inputs
Types == {"A", "CNAME"}
Data == {"1", "9"}
TTLs == {30, 60}
RootNames == {<<RootLabel>>, <<RootLabel, Dot>>}
FqdnArgs == {<<"w">>, <<"w", Dot, RootLabel>>}

\* The values of a record argument: "9", "1", "9", ... up to a length.
ValuesOf(n) == [i \in 1..n |-> IF i % 2 = 1 THEN "9" ELSE "1"]

RecordArgs == [fqdn : FqdnArgs, type : Types, records : {ValuesOf(n) : n \in 0..MaxValues}]

\* The zone the remote domain starts from: its first rows, named by label. Two A
\* values of w with the apex listed between them, then a CNAME of w.
ZoneRow(i) ==
    [id |-> i,
     name |-> IF i = 2 THEN <<Apex>> ELSE <<"w">>,
     type |-> IF i % 4 = 0 THEN "CNAME" ELSE "A",
     data |-> IF i \in {1, 2, 4} THEN "1" ELSE "9"]

\* RemoveRecord never reads record.Records: its arguments carry one value.
RemoveArgs == {r \in RecordArgs : r.records = ValuesOf(1)}

InitialBackends == {{ZoneRow(i) : i \in 1..k} : k \in 0..MaxInitRows}

NoRecord == [fqdn |-> <<>>, type |-> "", records |-> <<>>]
NoPrev == [kind |-> "none", records |-> {}, record |-> NoRecord]
MeterOff == [on |-> FALSE, ticks |-> 0, admitted |-> 0]
NoRow == [id |-> 0, name |-> <<>>, type |-> "", data |-> ""]
EmptyMap == <<>>

\* ---------------------------------------------------------------- remote API
\* The rows of the domain in the order the API lists them (by id).
RECURSIVE Listing(_)
Listing(rows) ==
    IF rows = {} THEN <<>>
    ELSE LET r == CHOOSE x \in rows : \A y \in rows : x.id <= y.id
         IN <<r>> \o Listing(rows \ {r})

\* Every way the API may cut a listing into consecutive non-empty pages (an empty
\* listing is one empty page).
RECURSIVE Splits(_)
Splits(s) ==
    IF Len(s) = 0 THEN {<< <<>> >>}
    ELSE {<<s>>} \cup
         UNION {{<<SubSeq(s, 1, n)>> \o rest : rest \in Splits(SubSeq(s, n + 1, Len(s)))}
                   : n \in 1..(Len(s) - 1)}

\* ---------------------------------------------------------------- GetRecords' aggregation
\* AddRow with a later value of a name and type replacing the earlier ones.
AddRowOverwrite(m, r, root) ==
    LET fqdn == Fqdn(JoinName(r.name, root))
    IN IF fqdn \in DOMAIN m
       THEN IF r.type \in DOMAIN m[fqdn]
            THEN [m EXCEPT ![fqdn][r.type] = <<r.data>>]
            ELSE [m EXCEPT ![fqdn] = @ @@ (r.type :> <<r.data>>)]
       ELSE m @@ (fqdn :> (r.type :> <<r.data>>))

\* One iteration of the loop over drecords: recordMap[fqdn][r.Type] gets r.Data.
AddRow(m, r, root) ==
    LET fqdn == Fqdn(JoinName(r.name, root))
    IN IF fqdn \in DOMAIN m
       THEN IF r.type \in DOMAIN m[fqdn]
            THEN [m EXCEPT ![fqdn][r.type] = Append(@, r.data)]
            ELSE [m EXCEPT ![fqdn] = @ @@ (r.type :> <<r.data>>)]
       ELSE m @@ (fqdn :> (r.type :> <<r.data>>))

RECURSIVE AddRows(_, _, _)
AddRows(m, rows, root) ==
    IF rows = <<>> THEN m ELSE AddRows(AddRow(m, Head(rows), root), Tail(rows), root)

\* The final loop over recordMap: one DnsRecord per fqdn and type, in no order.
BuildRecords(m, ttl) ==
    UNION {{[fqdn |-> f, type |-> t, records |-> m[f][t], ttl |-> ttl] : t \in DOMAIN m[f]}
              : f \in DOMAIN m}

\* ---------------------------------------------------------------- the rate bucket
Capacity == 1

NewBucket == [valid |-> TRUE, tokens |-> Capacity]

\* A backend call as the remote API saw it: n is the page of a list call or the
\* id of a deleted row, row the row of a create or delete call.
Call(kind, n, row, ok) == [kind |-> kind, n |-> n, row |-> row, ok |-> ok]

WaitPcs == {"init_wait_acct", "init_wait_dom", "hc_wait", "add_wait",
            "rm_wait_list", "rm_wait_del", "get_wait"}

AfterWait(p) ==
    CASE p = "init_wait_acct" -> "init_acct"
      [] p = "init_wait_dom" -> "init_dom"
      [] p = "hc_wait" -> "hc_dom"
      [] p = "add_wait" -> "add_create"
      [] p = "rm_wait_list" -> "rm_list"
      [] p = "rm_wait_del" -> "rm_delete"
      [] p = "get_wait" -> "get_list"

\* p.limiter.Wait(1): blocks until a token is there, then takes it.
LimiterWait ==
    /\ pc \in WaitPcs
    /\ limiter.valid
    /\ limiter.tokens >= 1
    /\ limiter' = [limiter EXCEPT !.tokens = @ - 1]
    /\ acquired' = acquired + 1
    /\ pc' = AfterWait(pc)
    /\ UNCHANGED <<provider, backend, nextId, op, record, err, rmLocals, getLocals, log, before, prev, crowd>>

\* Time passes while a caller waits for its token: the bucket refills up to its
\* capacity (the bucket brings its count up to date when a token is asked for).
Refill ==
    /\ pc \in WaitPcs
    /\ limiter.valid
    /\ limiter.tokens < Capacity
    /\ limiter' = [limiter EXCEPT !.tokens = @ + 1]
    /\ UNCHANGED <<provider, backend, nextId, op, pc, record, err, rmLocals, getLocals,
                   acquired, log, before, prev, crowd>>

\* ---------------------------------------------------------------- method frames
Idle == pc = "idle"

\* Enter with recordMap kept from call to call, as a field of the provider would be.
EnterKeepsMap(name, arg) ==
    /\ op' = name
    /\ record' = arg
    /\ records' = <<>>
    /\ idx' = 0
    /\ recordMap' = recordMap
    /\ optPage' = 0
    /\ dnsRecords' = {}
    /\ acquired' = 0
    /\ log' = <<>>
    /\ before' = backend

\* A method entry: the frame of the previous call is gone.
Enter(name, arg) ==
    /\ op' = name
    /\ record' = arg
    /\ records' = <<>>
    /\ idx' = 0
    /\ recordMap' = EmptyMap
    /\ optPage' = 0
    /\ dnsRecords' = {}
    /\ acquired' = 0
    /\ log' = <<>>
    /\ before' = backend

\* return e
Return(e) ==
    /\ pc' = "done"
    /\ err' = e

\* What the caller holds once the call in progress has returned: the collection
\* of a successful GetRecords, or the argument of a successful AddRecord made
\* when the domain had no row of that name and type. HealthCheck and a failed
\* GetRecords leave it as it was.
Holds ==
    IF op = "GetRecords" /\ err = NoError
    THEN [kind |-> "get", records |-> dnsRecords, record |-> NoRecord]
    ELSE IF /\ op = "AddRecord" /\ err = NoError
            /\ \A row \in before :
                  ~ /\ row.type = record.type
                    /\ \/ row.name = record.fqdn
                       \/ JoinName(row.name, rootDomainName) = UnFqdn(record.fqdn)
         THEN [kind |-> "add", records |-> {}, record |-> record]
         ELSE IF op \in {"HealthCheck", "GetRecords"} THEN prev ELSE NoPrev

\* The caller has the result: only the provider's fields outlive the call.
Finish ==
    /\ pc = "done"
    /\ pc' = "idle"
    /\ Enter("none", NoRecord)
    /\ err' = NoError
    /\ pages' = <<>>
    /\ prev' = Holds
    /\ UNCHANGED <<provider, limiter, backend, nextId, crowd>>

\* ---------------------------------------------------------------- Init
\* StartInit with the client, bucket and domain name set before the credential
\* is looked at.
StartInitClientFirst ==
    /\ Idle
    /\ \E root \in RootNames, pat \in BOOLEAN :
        /\ Enter("Init", NoRecord)
        /\ client' = TRUE
        /\ limiter' = NewBucket
        /\ rootDomainName' = UnFqdn(root)
        /\ IF ~pat
           THEN Return(ConfigError)
           ELSE pc' = "init_wait_acct" /\ err' = NoError
    /\ prev' = NoPrev
    /\ UNCHANGED <<TTL, backend, nextId, pages, crowd>>

StartInit ==
    /\ Idle
    /\ \E root \in RootNames, pat \in BOOLEAN :
        /\ Enter("Init", NoRecord)
        /\ IF ~pat
           THEN /\ Return(ConfigError)
                /\ UNCHANGED <<client, limiter, rootDomainName>>
           ELSE /\ client' = TRUE
                /\ limiter' = NewBucket
                /\ rootDomainName' = UnFqdn(root)
                /\ pc' = "init_wait_acct"
                /\ err' = NoError
    /\ prev' = NoPrev
    /\ UNCHANGED <<TTL, backend, nextId, pages, crowd>>

\* p.client.Account.Get()
AccountGet ==
    /\ pc = "init_acct"
    /\ \E ok \in BOOLEAN :
        /\ log' = Append(log, Call("account", 0, NoRow, ok))
        /\ IF ok THEN pc' = "init_wait_dom" /\ err' = err ELSE Return(BackendError)
    /\ UNCHANGED <<provider, limiter, backend, nextId, op, record, rmLocals, getLocals,
                   acquired, before, prev, crowd>>

\* p.client.Domains.Get(p.rootDomainName) of Init, and p.TTL = domains.TTL
InitDomainsGet ==
    /\ pc = "init_dom"
    /\ \E ok \in BOOLEAN :
        /\ log' = Append(log, Call("domain", 0, NoRow, ok))
        /\ IF ok
           THEN /\ TTL' \in TTLs
                /\ Return(NoError)
           ELSE /\ TTL' = TTL
                /\ Return(BackendError)
    /\ UNCHANGED <<client, rootDomainName, limiter, backend, nextId, op, record, rmLocals,
                   getLocals, acquired, before, prev, crowd>>

\* ---------------------------------------------------------------- HealthCheck
StartHealthCheck ==
    /\ Idle
    /\ client
    /\ Enter("HealthCheck", NoRecord)
    /\ pc' = "hc_wait"
    /\ err' = NoError
    /\ UNCHANGED <<provider, limiter, backend, nextId, pages, prev, crowd>>

\* HealthCheckDomainsGet with the TTL of the answer stored as Init does.
HealthCheckDomainsGetStoresTTL ==
    /\ pc = "hc_dom"
    /\ \E ok \in BOOLEAN :
        /\ log' = Append(log, Call("domain", 0, NoRow, ok))
        /\ Return(IF ok THEN NoError ELSE BackendError)
        /\ IF ok THEN TTL' \in TTLs ELSE TTL' = TTL
    /\ UNCHANGED <<client, rootDomainName, limiter, backend, nextId, op, record, rmLocals,
                   getLocals, acquired, before, prev, crowd>>

HealthCheckDomainsGet ==
    /\ pc = "hc_dom"
    /\ \E ok \in BOOLEAN :
        /\ log' = Append(log, Call("domain", 0, NoRow, ok))
        /\ Return(IF ok THEN NoError ELSE BackendError)
    /\ UNCHANGED <<provider, limiter, backend, nextId, op, record, rmLocals, getLocals,
                   acquired, before, prev, crowd>>

\* ---------------------------------------------------------------- AddRecord
\* Entry of AddRecord's range loop over record.Records.
BeginAdd(r) ==
    /\ idx' = 1
    /\ IF Len(r.records) = 0 THEN Return(NoError) ELSE pc' = "add_wait" /\ err' = NoError

StartAddRecord ==
    /\ Idle
    /\ client
    /\ \E r \in RecordArgs :
        /\ nextId - 1 + Len(r.records) <= MaxInitRows + MaxCreated
        /\ op' = "AddRecord"
        /\ record' = r
        /\ records' = <<>>
        /\ recordMap' = EmptyMap
        /\ optPage' = 0
        /\ dnsRecords' = {}
        /\ acquired' = 0
        /\ log' = <<>>
        /\ before' = backend
        /\ BeginAdd(r)
    /\ prev' = NoPrev
    /\ UNCHANGED <<provider, limiter, backend, nextId, pages, crowd>>

\* CreateRequest with the first value sent every time.
CreateRequestFirstValue(r, i) == [type |-> r.type, name |-> r.fqdn, data |-> r.records[1]]

\* The request AddRecord builds for the value at position i.
CreateRequest(r, i) == [type |-> r.type, name |-> r.fqdn, data |-> r.records[i]]

\* The row the remote API stores for a create request.
CreatedRow(id, req) == [id |-> id, name |-> req.name, type |-> req.type, data |-> req.data]

\* CreateFailed with UpdateRecord putting the domain back as it found it.
CreateFailedRollback ==
    /\ Return(Wrapped(BackendError))
    /\ backend' = IF op = "UpdateRecord" THEN before ELSE backend
    /\ UNCHANGED <<nextId, idx>>

\* A create call failed: AddRecord returns the wrapped error.
CreateFailed ==
    /\ Return(Wrapped(BackendError))
    /\ UNCHANGED <<backend, nextId, idx>>

\* p.client.Domains.CreateRecord(p.rootDomainName, createRequest)
CreateRecord ==
    /\ pc = "add_create"
    /\ LET row == CreatedRow(nextId, CreateRequest(record, idx))
       IN \E ok \in BOOLEAN :
            /\ log' = Append(log, Call("create", 0, row, ok))
            /\ IF ok
               THEN /\ backend' = backend \cup {row}
                    /\ nextId' = nextId + 1
                    /\ idx' = idx + 1
                    /\ IF idx = Len(record.records)
                       THEN Return(NoError)
                       ELSE pc' = "add_wait" /\ err' = err
               ELSE CreateFailed
    /\ UNCHANGED <<provider, limiter, op, record, records, getLocals, acquired, before, prev, crowd>>

\* ---------------------------------------------------------------- RemoveRecord
\* The next position at or after i of a row the loop deletes, 0 when there is none.
NextMatch(recs, i, r) ==
    LET js == {j \in i..Len(recs) : Matches(recs[j], r)}
    IN IF js = {} THEN 0 ELSE CHOOSE j \in js : \A k \in js : j <= k

\* RemoveRecord returns nil; inside UpdateRecord, AddRecord follows.
RemoveDone ==
    IF op = "UpdateRecord" THEN BeginAdd(record) ELSE Return(NoError) /\ idx' = 0

\* RemoveLoop with the delete issued without a token.
RemoveLoopNoWait(recs, i) ==
    LET j == NextMatch(recs, i, record)
    IN IF j = 0 THEN RemoveDone ELSE idx' = j /\ pc' = "rm_delete" /\ err' = err

\* The range loop moves on from position i.
RemoveLoop(recs, i) ==
    LET j == NextMatch(recs, i, record)
    IN IF j = 0 THEN RemoveDone ELSE idx' = j /\ pc' = "rm_wait_del" /\ err' = err

StartRemoveRecord ==
    /\ Idle
    /\ client
    /\ \E r \in RemoveArgs : Enter("RemoveRecord", r)
    /\ pc' = "rm_wait_list"
    /\ err' = NoError
    /\ prev' = NoPrev
    /\ UNCHANGED <<provider, limiter, backend, nextId, pages, crowd>>

\* The first pages the remote API may answer a list call without options with.
FirstPages(rows) == {sp[1] : sp \in Splits(Listing(rows))}

\* p.client.Domains.Records(p.rootDomainName, nil)
RemoveList ==
    /\ pc = "rm_list"
    /\ \E ok \in BOOLEAN :
        /\ log' = Append(log, Call("list", 0, NoRow, ok))
        /\ IF ok
           THEN \E page \in FirstPages(backend) :
                    /\ records' = page
                    /\ RemoveLoop(page, 1)
           ELSE /\ Return(BackendError)
                /\ UNCHANGED <<records, idx>>
    /\ UNCHANGED <<provider, limiter, backend, nextId, op, record, getLocals, acquired, before, prev, crowd>>

\* DeleteFailed with the loop going on to the rows that remain.
DeleteFailedContinue ==
    /\ backend' = backend
    /\ RemoveLoop(records, idx + 1)

\* A delete call failed: RemoveRecord returns the wrapped error from inside the loop.
DeleteFailed ==
    /\ Return(Wrapped(BackendError))
    /\ UNCHANGED <<backend, idx>>

\* p.client.Domains.DeleteRecord(p.rootDomainName, rec.ID)
DeleteRecord ==
    /\ pc = "rm_delete"
    /\ LET rec == records[idx]
       IN \E ok \in BOOLEAN :
            /\ log' = Append(log, Call("delete", rec.id, rec, ok))
            /\ IF ok
               THEN /\ backend' = {row \in backend : row.id # rec.id}
                    /\ RemoveLoop(records, idx + 1)
               ELSE DeleteFailed
    /\ UNCHANGED <<provider, limiter, nextId, op, record, records, getLocals, acquired, before, prev, crowd>>

\* ---------------------------------------------------------------- UpdateRecord
StartUpdateRecord ==
    /\ Idle
    /\ client
    /\ \E r \in RecordArgs :
        /\ nextId - 1 + Len(r.records) <= MaxInitRows + MaxCreated
        /\ Enter("UpdateRecord", r)
    /\ pc' = "rm_wait_list"
    /\ err' = NoError
    /\ prev' = NoPrev
    /\ UNCHANGED <<provider, limiter, backend, nextId, pages, crowd>>

\* ---------------------------------------------------------------- GetRecords
StartGetRecords ==
    /\ Idle
    /\ client
    /\ Enter("GetRecords", NoRecord)
    /\ pages' \in Splits(Listing(backend))
    /\ pc' = "get_wait"
    /\ err' = NoError
    /\ UNCHANGED <<provider, limiter, backend, nextId, prev, crowd>>

\* The page a list call with opt.Page = n asks for.
PageAsked(n) == IF n = 0 THEN 1 ELSE n

\* opt.Page = page + 1
NextPage(page) == page + 1

\* IsLastPage with the loop left after the first page.
IsLastPageAlways(page) == TRUE

\* resp.Links == nil || resp.Links.IsLastPage()
IsLastPage(page) == page >= Len(pages)

\* ListFailed with the records aggregated so far returned beside the error.
ListFailedPartial ==
    /\ Return(Wrapped(BackendError))
    /\ dnsRecords' = BuildRecords(recordMap, TTL)
    /\ UNCHANGED <<recordMap, optPage>>

\* A list call failed: GetRecords returns nil and the wrapped error.
ListFailed ==
    /\ Return(Wrapped(BackendError))
    /\ dnsRecords' = {}
    /\ UNCHANGED <<recordMap, optPage>>

\* p.client.Domains.Records(p.rootDomainName, opt) and the rest of the loop body.
GetList ==
    /\ pc = "get_list"
    /\ LET page == PageAsked(optPage)
           m == AddRows(recordMap, pages[page], rootDomainName)
       IN \E ok \in BOOLEAN :
            /\ log' = Append(log, Call("list", page, NoRow, ok))
            /\ IF ~ok
               THEN ListFailed
               ELSE /\ recordMap' = m
                    /\ IF IsLastPage(page)
                       THEN /\ dnsRecords' = BuildRecords(m, TTL)
                            /\ Return(NoError)
                            /\ optPage' = optPage
                       ELSE \E linkOk \in BOOLEAN :
                              IF linkOk
                              THEN /\ optPage' = NextPage(page)
                                   /\ pc' = "get_wait"
                                   /\ UNCHANGED <<dnsRecords, err>>
                              ELSE /\ Return(Wrapped(BackendError))
                                   /\ dnsRecords' = {}
                                   /\ optPage' = optPage
    /\ UNCHANGED <<provider, limiter, backend, nextId, op, record, rmLocals, pages,
                   acquired, before, prev, crowd>>

\* ---------------------------------------------------------------- the system
Init ==
    /\ client = FALSE
    /\ limiter = [valid |-> FALSE, tokens |-> 0]
    /\ rootDomainName = <<>>
    /\ TTL = 0
    /\ backend \in InitialBackends
    /\ nextId = MaxInitRows + 1
    /\ op = "none"
    /\ pc = "idle"
    /\ record = NoRecord
    /\ err = NoError
    /\ records = <<>>
    /\ idx = 0
    /\ recordMap = EmptyMap
    /\ optPage = 0
    /\ pages = <<>>
    /\ dnsRecords = {}
    /\ acquired = 0
    /\ log = <<>>
    /\ before = backend
    /\ prev = NoPrev
    /\ callers = <<>>
    /\ meter = MeterOff

Next ==
    \/ StartInit
    \/ AccountGet
    \/ InitDomainsGet
    \/ StartHealthCheck
    \/ HealthCheckDomainsGet
    \/ StartAddRecord
    \/ CreateRecord
    \/ StartRemoveRecord
    \/ RemoveList
    \/ DeleteRecord
    \/ StartUpdateRecord
    \/ StartGetRecords
    \/ GetList
    \/ LimiterWait
    \/ Refill
    \/ Finish

Spec == Init /\ [][Next]_vars

\* ---------------------------------------------------------------- concurrent callers
\* One configured provider called from NCallers goroutines at once, each running
\* HealthCheck again and again: every method is a sequence of such pairs of
\* p.limiter.Wait(1) and one client call on the one bucket of the provider.
CallerIds == 1..NCallers

frame == <<op, pc, record, err, rmLocals, getLocals, acquired, log, before, prev>>

\* The provider after a successful Init, its bucket anywhere between empty and
\* full; pc = "off": there is no sequential caller.
CrowdInit ==
    /\ client = TRUE
    /\ limiter \in {[valid |-> TRUE, tokens |-> n] : n \in 0..Capacity}
    /\ rootDomainName = <<RootLabel>>
    /\ TTL \in TTLs
    /\ backend = {}
    /\ nextId = MaxInitRows + 1
    /\ op = "none"
    /\ pc = "off"
    /\ record = NoRecord
    /\ err = NoError
    /\ records = <<>>
    /\ idx = 0
    /\ recordMap = EmptyMap
    /\ optPage = 0
    /\ pages = <<>>
    /\ dnsRecords = {}
    /\ acquired = 0
    /\ log = <<>>
    /\ before = backend
    /\ prev = NoPrev
    /\ callers = [c \in CallerIds |-> "idle"]
    /\ meter = MeterOff

\* A goroutine enters HealthCheck.
CallerStart(c) ==
    /\ callers # <<>>
    /\ callers[c] = "idle"
    /\ client
    /\ callers' = [callers EXCEPT ![c] = "hc_wait"]
    /\ UNCHANGED <<provider, limiter, backend, nextId, frame, meter>>

\* CallerWait with the token count read before another caller's debit: the
\* caller goes on whether or not a token is left.
CallerWaitStale(c) ==
    /\ callers # <<>>
    /\ callers[c] = "hc_wait"
    /\ limiter.valid
    /\ limiter' = [limiter EXCEPT !.tokens = IF @ >= 1 THEN @ - 1 ELSE 0]
    /\ callers' = [callers EXCEPT ![c] = "hc_dom"]
    /\ meter' = IF meter.on THEN [meter EXCEPT !.admitted = @ + 1] ELSE meter
    /\ UNCHANGED <<provider, backend, nextId, frame>>

\* p.limiter.Wait(1) of one goroutine: the test for a token and its debit are one
\* step of the bucket.
CallerWait(c) ==
    /\ callers # <<>>
    /\ callers[c] = "hc_wait"
    /\ limiter.valid
    /\ limiter.tokens >= 1
    /\ limiter' = [limiter EXCEPT !.tokens = @ - 1]
    /\ callers' = [callers EXCEPT ![c] = "hc_dom"]
    /\ meter' = IF meter.on THEN [meter EXCEPT !.admitted = @ + 1] ELSE meter
    /\ UNCHANGED <<provider, backend, nextId, frame>>

\* p.client.Domains.Get(p.rootDomainName) of one goroutine returns, with an error
\* or without, and HealthCheck returns it.
CallerCall(c) ==
    /\ callers # <<>>
    /\ callers[c] = "hc_dom"
    /\ callers' = [callers EXCEPT ![c] = "idle"]
    /\ UNCHANGED <<provider, limiter, backend, nextId, frame, meter>>

\* The meter after one more refill period: an interval is observed for MaxTicks
\* periods.
Ticked(m) ==
    IF ~m.on THEN m
    ELSE IF m.ticks < MaxTicks THEN [m EXCEPT !.ticks = @ + 1] ELSE MeterOff

\* Tick with the period passing and no token put into the bucket.
TickNoRefill ==
    /\ callers # <<>>
    /\ limiter.valid
    /\ limiter' = limiter
    /\ meter' = Ticked(meter)
    /\ UNCHANGED <<provider, backend, nextId, frame, callers>>

\* One refill period of the bucket passes: one token more, up to its capacity.
Tick ==
    /\ callers # <<>>
    /\ limiter.valid
    /\ limiter' = [limiter EXCEPT !.tokens = IF @ < Capacity THEN @ + 1 ELSE @]
    /\ meter' = Ticked(meter)
    /\ UNCHANGED <<provider, backend, nextId, frame, callers>>

\* An interval of observation starts, at any moment.
Mark ==
    /\ callers # <<>>
    /\ ~meter.on
    /\ meter' = [on |-> TRUE, ticks |-> 0, admitted |-> 0]
    /\ UNCHANGED <<provider, limiter, backend, nextId, frame, callers>>

CrowdNext ==
    \/ \E c \in CallerIds : CallerStart(c)
    \/ \E c \in CallerIds : CallerWait(c)
    \/ \E c \in CallerIds : CallerCall(c)
    \/ Tick
    \/ Mark

SpecCrowd == CrowdInit /\ [][CrowdNext]_vars

\* ---------------------------------------------------------------- progress
\* The bucket keeps refilling and every client call returns. A waiting goroutine
\* is not passed over for ever by the others: the bucket gives out its tokens in
\* the order they were asked for.
Fairness ==
    /\ WF_vars(LimiterWait)
    /\ WF_vars(Refill)
    /\ WF_vars(AccountGet)
    /\ WF_vars(InitDomainsGet)
    /\ WF_vars(HealthCheckDomainsGet)
    /\ WF_vars(CreateRecord)
    /\ WF_vars(RemoveList)
    /\ WF_vars(DeleteRecord)
    /\ WF_vars(GetList)
    /\ WF_vars(Tick)
    /\ \A c \in CallerIds : SF_vars(CallerWait(c)) /\ WF_vars(CallerCall(c))

LiveInit == Init \/ CrowdInit

LiveNext == Next \/ CrowdNext

LiveSpec == LiveInit /\ [][LiveNext]_vars /\ Fairness
\* ================================================================ properties
\* Positions in the log of the calls of one kind, of the failed calls, and the
\* rows the method in progress has deleted and created.
CallsOf(kind) == {i \in 1..Len(log) : log[i].kind = kind}
FailedCalls == {i \in 1..Len(log) : ~log[i].ok}
DeletedRows == {log[i].row : i \in {j \in CallsOf("delete") : log[j].ok}}
CreatedRows == {log[i].row : i \in {j \in CallsOf("create") : log[j].ok}}
Returned(name) == op = name /\ pc = "done"

\* C1: in every method, Init to UpdateRecord, each backend call is preceded by
\* exactly one acquire of a token made after the previous backend call: the
\* tokens a method has acquired minus the calls it has issued is 0 or 1.
C1_OneTokenPerCall == acquired - Len(log) \in {0, 1}

C1_Witness ==
    /\ Returned("UpdateRecord")
    /\ CallsOf("list") # {} /\ CallsOf("delete") # {} /\ CallsOf("create") # {}
    /\ acquired = Len(log)
    /\ acquired >= 3

\* The values the domain holds for a record: the data of the rows of its type
\* stored under its relative label or under its full name, in listing order.
RowIsFor(row, r) ==
    /\ row.type = r.type
    /\ \/ JoinName(row.name, rootDomainName) = r.fqdn
       \/ row.name = r.fqdn

RECURSIVE DataOf(_)
DataOf(rows) == IF rows = <<>> THEN <<>> ELSE <<Head(rows).data>> \o DataOf(Tail(rows))

ValuesHeld(rows, r) == DataOf(SelectSeq(Listing(rows), LAMBDA row : RowIsFor(row, r)))

\* C2: when a record f of type t exists as rows named by the relative label and
\* UpdateRecord({f, t, V}) succeeds, the domain holds for (f, t) exactly the
\* values V and none of the old values.
C2_UpdateReplacesValues ==
    ( /\ Returned("UpdateRecord")
      /\ err = NoError
      /\ record.records # <<>>
      /\ \E row \in before :
            row.type = record.type /\ JoinName(row.name, rootDomainName) = record.fqdn )
    => ValuesHeld(backend, record) = record.records

\* C3: UpdateRecord runs RemoveRecord to its end before any create call, issues
\* no create call when RemoveRecord fails, and when a create call fails after a
\* successful remove it returns an error with the deleted rows still deleted and
\* the created rows still created.
C3_UpdateNotAtomic ==
    op = "UpdateRecord" =>
        /\ \A c \in CallsOf("create") :
              /\ \A i \in 1..(c - 1) : log[i].ok
              /\ \A i \in c..Len(log) : log[i].kind = "create"
              /\ \A j \in 1..Len(records) :
                    Matches(records[j], record) => records[j] \in DeletedRows
        /\ (\E i \in FailedCalls : log[i].kind \in {"list", "delete"})
              => CallsOf("create") = {} /\ pc = "done" /\ err # NoError
        /\ (pc = "done" /\ \E i \in FailedCalls : log[i].kind = "create")
              => /\ err # NoError
                 /\ DeletedRows \cap backend = {}
                 /\ CreatedRows \subseteq backend
                 /\ backend = (before \ DeletedRows) \cup CreatedRows

C3_Witness ==
    /\ Returned("UpdateRecord")
    /\ \E i \in FailedCalls : log[i].kind = "create"
    /\ DeletedRows # {}
    /\ CreatedRows # {}

\* C4: RemoveRecord(r) issues a delete call only for rows that match r on name
\* and type: a row of another type or another name is still there after it,
\* whether it succeeds or fails.
C4_RemoveOnlyMatching ==
    op = "RemoveRecord" =>
        /\ \A i \in CallsOf("delete") :
              log[i].row.name = record.fqdn /\ log[i].row.type = record.type
        /\ \A row \in before :
              (row.type # record.type \/ row.name # record.fqdn) => row \in backend

C4_Witness ==
    /\ Returned("RemoveRecord")
    /\ DeletedRows # {}
    /\ \E row \in backend : row.name = record.fqdn /\ row.type # record.type
    /\ \E row \in backend : row.name # record.fqdn /\ row.type = record.type

\* C5: when every backend call succeeds, RemoveRecord(r) deletes every listed
\* row whose label-joined name equals r.fqdn and whose type equals r.type.
C5_RemoveDeletesJoinedMatches ==
    (Returned("RemoveRecord") /\ FailedCalls = {}) =>
        \A j \in 1..Len(records) :
            ( /\ JoinName(records[j].name, rootDomainName) = record.fqdn
              /\ records[j].type = record.type )
            => records[j] \notin backend
\* C6 as stated: after a failed delete RemoveRecord still attempts the delete of
\* every remaining matching row, the deletions that succeeded stay applied, and
\* the error returned is the one of the last failed delete.
C6_RemoveContinuesAfterFailure ==
    (Returned("RemoveRecord") /\ \E i \in FailedCalls : log[i].kind = "delete") =>
        /\ \A j \in 1..Len(records) :
              Matches(records[j], record)
                  => \E i \in CallsOf("delete") : log[i].n = records[j].id
        /\ DeletedRows \cap backend = {}
        /\ err = Wrapped(BackendError)

\* C6 amended: a failed delete ends RemoveRecord at once. It is the last call
\* and the only failed one, no delete is attempted for the rows after it, which
\* stay on the backend, the deletions that succeeded stay applied, and the
\* wrapped error of that delete is returned.
C6_RemoveStopsAtFirstFailure ==
    (op \in {"RemoveRecord", "UpdateRecord"} /\ \E i \in FailedCalls : log[i].kind = "delete") =>
        /\ pc = "done"
        /\ err = Wrapped(BackendError)
        /\ FailedCalls = {Len(log)}
        /\ log[Len(log)].row = records[idx]
        /\ \A j \in (idx + 1)..Len(records) :
              /\ \A i \in CallsOf("delete") : log[i].n # records[j].id
              /\ records[j] \in backend
        /\ DeletedRows \cap backend = {}

C6_Witness ==
    /\ Returned("RemoveRecord")
    /\ \E i \in FailedCalls : log[i].kind = "delete"
    /\ DeletedRows # {}
    /\ \E j \in (idx + 1)..Len(records) : Matches(records[j], record)

\* The fully-qualified name a returned record carries for a backend row, written
\* out: the root domain and a dot for "@", label "." root domain and a dot otherwise.
DottedName(row) ==
    IF row.name = <<"@">>
    THEN rootDomainName \o <<".">>
    ELSE row.name \o <<".">> \o rootDomainName \o <<".">>

\* The same without the trailing dot.
UndottedName(row) ==
    IF row.name = <<"@">> THEN rootDomainName ELSE row.name \o <<".">> \o rootDomainName

GetSucceeded == Returned("GetRecords") /\ err = NoError

\* C7: a successful GetRecords returns at most one record per (fqdn, type), its
\* values are the data of all rows of that name and type in the order met
\* across the pages, each once, and it carries the TTL stored by Init.
C7_GroupedInOrder ==
    GetSucceeded =>
        LET rows == Listing(before)
        IN /\ \A a, b \in dnsRecords : (a.fqdn = b.fqdn /\ a.type = b.type) => a = b
           /\ \A i \in 1..Len(rows) :
                 \E rec \in dnsRecords : rec.fqdn = DottedName(rows[i]) /\ rec.type = rows[i].type
           /\ \A rec \in dnsRecords :
                 /\ rec.records # <<>>
                 /\ rec.records =
                       DataOf(SelectSeq(rows, LAMBDA row :
                                  DottedName(row) = rec.fqdn /\ row.type = rec.type))
                 /\ rec.ttl = TTL

C7_Witness ==
    /\ GetSucceeded
    /\ Len(pages) >= 2
    /\ Cardinality(dnsRecords) >= 2
    /\ \E rec \in dnsRecords : Len(rec.records) >= 2 /\ rec.records[1] # rec.records[2]
    /\ TTL \in TTLs

C9_PagedLikeOnePage ==
    GetSucceeded =>
        /\ Len(log) = Len(pages)
        /\ \A i \in 1..Len(log) : log[i].kind = "list" /\ log[i].n = i /\ log[i].ok
        /\ acquired = Len(pages)
        /\ dnsRecords = BuildRecords(AddRows(EmptyMap, Listing(before), rootDomainName), TTL)

C9_Witness ==
    /\ GetSucceeded
    /\ Len(pages) = 3
    /\ Len(log) = 3
    /\ Cardinality(dnsRecords) >= 2

\* C10: when the fetch of a page fails, GetRecords returns an error and no
\* records, the ones aggregated from the earlier pages included, and issues no
\* list call after the failed one.
C10_FailedPageDiscardsAll ==
    (op = "GetRecords" /\ FailedCalls # {}) =>
        /\ pc = "done"
        /\ err = Wrapped(BackendError)
        /\ dnsRecords = {}
        /\ FailedCalls = {Len(log)}

C10_Witness ==
    /\ Returned("GetRecords")
    /\ FailedCalls = {3}
    /\ recordMap # EmptyMap
    /\ dnsRecords = {}
\* C11: without a credential Init returns the configuration error with no
\* backend call issued and no token acquired, and client, bucket, root domain
\* name and TTL are left as they were.
C11_NoCredentialNoCall ==
    /\ [](Returned("Init") /\ err = ConfigError => log = <<>> /\ acquired = 0)
    /\ [][(op' = "Init" /\ err' = ConfigError)
             => /\ pc' = "done"
                /\ log' = <<>>
                /\ acquired' = 0
                /\ UNCHANGED <<client, limiter, rootDomainName, TTL, backend>>]_vars

C11_Witness ==
    /\ Returned("Init")
    /\ err = ConfigError
    /\ client
    /\ TTL \in TTLs

\* C12: AddRecord(r) issues one create call per value of r, in order, each with
\* r's name, r's type and that one value; at the first failed create it returns
\* the error, issues no further create, and the rows already created stay.
C12_AddFailsFast ==
    op = "AddRecord" =>
        /\ Len(log) <= Len(record.records)
        /\ \A i \in 1..Len(log) :
              /\ log[i].kind = "create"
              /\ log[i].row.name = record.fqdn
              /\ log[i].row.type = record.type
              /\ log[i].row.data = record.records[i]
        /\ FailedCalls \subseteq {Len(log)}
        /\ FailedCalls # {} => pc = "done" /\ err = Wrapped(BackendError)
        /\ (pc = "done" /\ err = NoError) => Len(log) = Len(record.records)
        /\ backend = before \cup CreatedRows
        /\ Cardinality(CreatedRows) = Len(log) - Cardinality(FailedCalls)

C12_Witness ==
    /\ Returned("AddRecord")
    /\ Len(record.records) >= 2
    /\ FailedCalls = {2}
    /\ CreatedRows # {}
    /\ CreatedRows \subseteq backend

ReadyOps == {"HealthCheck", "GetRecords", "AddRecord", "RemoveRecord", "UpdateRecord"}

\* C13: every failed backend call of HealthCheck, GetRecords, AddRecord,
\* RemoveRecord and UpdateRecord reaches the caller as the backend error wrapped
\* with the provider's name; none is returned unwrapped, none is swallowed.
C13_FailuresWrapped ==
    (op \in ReadyOps /\ pc = "done" /\ FailedCalls # {}) => err = Wrapped(BackendError)

\* C15: once a backend call of a method has failed, the method issues no other
\* backend call, acquires no other token, and returns an error.
C15_NoCallAfterFailure ==
    FailedCalls # {} =>
        /\ FailedCalls = {Len(log)}
        /\ acquired = Len(log)
        /\ pc = "done"
        /\ err # NoError

C15_Witness ==
    /\ Returned("UpdateRecord")
    /\ FailedCalls # {}
    /\ log[Len(log)].kind = "delete"
    /\ \E j \in (idx + 1)..Len(records) : Matches(records[j], record)
    /\ record.records # <<>>

\* C17: HealthCheck acquires one token, issues one backend call, the domain
\* get, returns success exactly when it succeeds, and changes neither the
\* client, the root domain name, the TTL nor the backend rows.
C17_HealthCheckReadOnly ==
    /\ [](Returned("HealthCheck") =>
             /\ acquired = 1
             /\ Len(log) = 1
             /\ log[1].kind = "domain"
             /\ (err = NoError) <=> log[1].ok
             /\ backend = before)
    /\ [][(op' = "HealthCheck") => UNCHANGED <<client, rootDomainName, TTL, backend, nextId>>]_vars

C17_Witness ==
    /\ Returned("HealthCheck")
    /\ err = NoError
    /\ TTL \in TTLs
    /\ backend # {}

\* C19: the bucket is never reset, Init called again included: its token count
\* changes only by the debit of an acquire and by refill while a caller waits.
C19_BucketNeverReset ==
    [][limiter.valid =>
          \/ limiter' = limiter
          \/ /\ limiter'.tokens = limiter.tokens - 1
             /\ acquired' = acquired + 1
             /\ UNCHANGED op
          \/ /\ limiter'.tokens = limiter.tokens + 1
             /\ UNCHANGED <<op, pc, acquired>>]_vars

\* C16: GetRecords is idempotent on a static backend. A successful GetRecords
\* that follows a successful GetRecords, with only HealthCheck and GetRecords
\* calls between the two, returns the same set of records (fqdn, type, value
\* sequence and TTL); and no step of GetRecords changes the backend rows, the
\* root domain name or the TTL.
C16_GetIdempotent ==
    /\ [](GetSucceeded /\ prev.kind = "get" => dnsRecords = prev.records)
    /\ [][op' = "GetRecords" => UNCHANGED <<backend, nextId, rootDomainName, TTL>>]_vars

\* A second successful GetRecords of a domain whose rows give several records,
\* one of them with two values, served in more than one page.
C16_Witness ==
    /\ GetSucceeded
    /\ prev.kind = "get"
    /\ Cardinality(dnsRecords) >= 2
    /\ \E rec \in dnsRecords : Len(rec.records) >= 2
    /\ Len(pages) >= 2

\* C20: after AddRecord(r) with values has succeeded on a domain that had no row
\* of r's name and type, a following successful GetRecords returns a record with
\* r's fqdn, r's type and r's values.
C20_AddGetRoundTrip ==
    (GetSucceeded /\ prev.kind = "add" /\ prev.record.records # <<>>)
        => \E rec \in dnsRecords :
              /\ rec.fqdn = prev.record.fqdn
              /\ rec.type = prev.record.type
              /\ rec.records = prev.record.records

\* C14: with one bucket of capacity 1 shared by concurrent callers, in an interval
\* of k refill periods at most k + 1 calls are admitted, the bucket never holds
\* fewer than no token or more than its capacity, and a caller is admitted only
\* by taking a token that is there: with the bucket empty nobody gets past Wait
\* before a refill. This holds in every interleaving of the callers.
C14_AdmittedWithinRefills ==
    /\ [](callers # <<>> =>
             /\ limiter.tokens \in 0..Capacity
             /\ meter.on => meter.admitted <= meter.ticks + Capacity)
    /\ [][\A c \in CallerIds :
             (callers # <<>> /\ callers[c] = "hc_wait" /\ callers'[c] = "hc_dom")
                => /\ limiter.tokens >= 1
                   /\ limiter'.tokens = limiter.tokens - 1
                   /\ \A d \in CallerIds \ {c} : callers'[d] = callers[d]]_vars

\* An interval in which the burst token and every refilled token were taken,
\* with two callers still waiting at the empty bucket.
C14_Witness ==
    /\ callers # <<>>
    /\ meter.on
    /\ meter.ticks >= 1
    /\ meter.admitted = meter.ticks + Capacity
    /\ limiter.tokens = 0
    /\ Cardinality({c \in CallerIds : callers[c] = "hc_wait"}) >= 2

====
